---- MODULE Spec2Model ----
(***************************************************************************)
(* Barbershop reservation API: the reservation store, the HTTP handlers of *)
(* ReservationController, the request validation of app.js, the column     *)
(* rules of the Reservation model and the notification factory.            *)
(*                                                                         *)
(* Free text (names, e-mail addresses, phone numbers, times of day) is a   *)
(* sequence of one-character strings, so that trimming, length checks, the *)
(* time pattern and the slot formatting are computed character by          *)
(* character.  Identifiers of library-checked shape (UUIDs, dates,         *)
(* decimals) are TLA+ strings, well formed when they are in the listed     *)
(* sets.                                                                   *)
(*                                                                         *)
(* Spec serves one request at a time with the store up; FaultSpec adds a   *)
(* store that stops answering; AsyncSpec runs the handlers of several      *)
(* clients step by step, one step per await.                               *)
(***************************************************************************)
EXTENDS Integers, Sequences, FiniteSets, TLC

VARIABLES store, request, response, outbox, db, inflight, confirmationsSent

vars ==
    <<store, request, response, outbox, db, inflight, confirmationsSent>>

(***************************************************************************)
(* Bounds                                                                  *)
(***************************************************************************)
\* number of reservation identifiers (rows the table can hold)
MaxIds == 2

Ids == 1..MaxIds

\* number of clients with a request in flight at the same time
MaxClients == 2

Clients == 1..MaxClients

(***************************************************************************)
(* Characters and strings                                                  *)
(***************************************************************************)
Digits == <<"0", "1", "2", "3", "4", "5", "6", "7", "8", "9">>

IsDigit(c) == \E d \in 1..10 : Digits[d] = c

DigitVal(c) == (CHOOSE d \in 1..10 : Digits[d] = c) - 1

\* Number.prototype.toString() of a non-negative integer
RECURSIVE NumToString(_)
NumToString(n) ==
    IF n < 10 THEN <<Digits[n + 1]>>
    ELSE NumToString(n \div 10) \o <<Digits[(n % 10) + 1]>>

\* String.prototype.padStart(len, c)
RECURSIVE PadStart(_, _, _)
PadStart(s, len, c) ==
    IF Len(s) >= len THEN s ELSE PadStart(<<c>> \o s, len, c)

\* String.prototype.trim(), as the trim() sanitizer applies it
RECURSIVE TrimLeft(_)
TrimLeft(s) ==
    IF s # <<>> /\ Head(s) = " " THEN TrimLeft(Tail(s)) ELSE s

RECURSIVE TrimRight(_)
TrimRight(s) ==
    IF s # <<>> /\ s[Len(s)] = " " THEN TrimRight(SubSeq(s, 1, Len(s) - 1))
    ELSE s

Trim(s) == TrimRight(TrimLeft(s))

\* the value of a two-digit field of a time string
TwoDigits(s, i) == 10 * DigitVal(s[i]) + DigitVal(s[i + 1])

(***************************************************************************)
(* The slot grid                                                           *)
(***************************************************************************)
FirstHour == 9

ClosingHour == 18

ColonZeroZero == <<":", "0", "0">>

ColonThirtyZero == <<":", "3", "0", ":", "0", "0">>

\* the two slots of an hour without padStart
HourSlotsUnpadded(hour) ==
    << NumToString(hour) \o ColonZeroZero \o ColonZeroZero,
       NumToString(hour) \o ColonThirtyZero >>

\* one iteration of the loop of generateTimeSlots: the two slots of an hour
HourSlots(hour) ==
    << PadStart(NumToString(hour), 2, "0") \o ColonZeroZero \o ColonZeroZero,
       PadStart(NumToString(hour), 2, "0") \o ColonThirtyZero >>

RECURSIVE SlotsFrom(_)
SlotsFrom(hour) ==
    IF hour < ClosingHour THEN HourSlots(hour) \o SlotsFrom(hour + 1)
    ELSE <<>>

generateTimeSlots == SlotsFrom(FirstHour)

(***************************************************************************)
(* Request validation (app.js, reservationValidation)                      *)
(***************************************************************************)
\* the value of a body field; a missing field validates as the empty string
Field(body, f, empty) == IF f \in DOMAIN body THEN body[f] ELSE empty

With(body, f, v) ==
    [g \in DOMAIN body \cup {f} |-> IF g = f THEN v ELSE body[g]]

Without(body, f) == [g \in DOMAIN body \ {f} |-> body[g]]

MinNameLen == 2

MaxNameLen == 100

ServiceTypes == {"haircut", "shave", "beard-trim", "full-service"}

Statuses == {"pending", "confirmed", "completed", "cancelled"}

\* the barbers of the /api/barbers list
JohnSmith == "123e4567-e89b-12d3-a456-426614174000"

MikeJohnson == "223e4567-e89b-12d3-a456-426614174001"

DavidBrown == "323e4567-e89b-12d3-a456-426614174002"

\* isUUID(): the well-formed UUID strings among the values used here
UUIDs == {JohnSmith, MikeJohnson, DavidBrown}

IsUUID(s) == s \in UUIDs

Christmas == "2025-12-25"

BoxingDay == "2025-12-26"

\* isDate(): the well-formed calendar dates among the values used here
Dates == {Christmas, BoxingDay}

IsDate(s) == s \in Dates

\* isDecimal(): the well-formed decimals among the values used here
Decimals == {"25.00", "15.00"}

IsDecimal(s) == s \in Decimals

\* isEmail(): one "@", a non-empty local part, a dotted domain
AtPositions(s) == {i \in 1..Len(s) : s[i] = "@"}

IsEmail(s) ==
    /\ Cardinality(AtPositions(s)) = 1
    /\ LET at == CHOOSE i \in AtPositions(s) : TRUE
       IN /\ at > 1
          /\ \E dot \in (at + 2)..(Len(s) - 1) : s[dot] = "."
          /\ \A i \in 1..Len(s) : s[i] # " "

\* normalizeEmail(): lower-cases the address
LowerCase(c) ==
    CASE c = "J" -> "j"
      [] c = "X" -> "x"
      [] OTHER -> c

NormalizeEmail(s) == [i \in 1..Len(s) |-> LowerCase(s[i])]

\* /^([0-1]?[0-9]|2[0-3]):[0-5][0-9]:[0-5][0-9]$/
IsSixtyField(s, i) ==
    /\ s[i] \in {"0", "1", "2", "3", "4", "5"}
    /\ IsDigit(s[i + 1])

\* the pattern with 2[0-9] for 2[0-3]
MatchesTimePatternLoose(s) ==
    /\ Len(s) \in {7, 8}
    /\ LET hourLen == Len(s) - 6
       IN /\ \/ /\ hourLen = 1
                /\ IsDigit(s[1])
             \/ /\ hourLen = 2
                /\ s[1] \in {"0", "1", "2"}
                /\ IsDigit(s[2])
          /\ s[hourLen + 1] = ":"
          /\ IsSixtyField(s, hourLen + 2)
          /\ s[hourLen + 4] = ":"
          /\ IsSixtyField(s, hourLen + 5)

MatchesTimePattern(s) ==
    /\ Len(s) \in {7, 8}
    /\ LET hourLen == Len(s) - 6
       IN /\ \/ /\ hourLen = 1
                /\ IsDigit(s[1])
             \/ /\ hourLen = 2
                /\ s[1] \in {"0", "1"}
                /\ IsDigit(s[2])
             \/ /\ hourLen = 2
                /\ s[1] = "2"
                /\ s[2] \in {"0", "1", "2", "3"}
          /\ s[hourLen + 1] = ":"
          /\ IsSixtyField(s, hourLen + 2)
          /\ s[hourLen + 4] = ":"
          /\ IsSixtyField(s, hourLen + 5)

\* the fields of the request body that fail their validation chain
ValidationErrors(body) ==
    LET name == Field(body, "customerName", <<>>)
        phone == Field(body, "customerPhone", <<>>)
        bname == Field(body, "barberName", <<>>)
    IN  {f \in {"customerName"} :
            name = <<>> \/ Len(Trim(name)) < MinNameLen
                        \/ Len(Trim(name)) > MaxNameLen}
        \cup {f \in {"customerEmail"} :
                ~IsEmail(Field(body, "customerEmail", <<>>))}
        \cup {f \in {"customerPhone"} : phone = <<>>}
        \cup {f \in {"barberId"} : ~IsUUID(Field(body, "barberId", ""))}
        \cup {f \in {"barberName"} : bname = <<>>}
        \cup {f \in {"serviceType"} :
                Field(body, "serviceType", "") \notin ServiceTypes}
        \cup {f \in {"appointmentDate"} :
                ~IsDate(Field(body, "appointmentDate", ""))}
        \cup {f \in {"appointmentTime"} :
                ~MatchesTimePattern(Field(body, "appointmentTime", <<>>))}
        \cup {f \in {"price"} : ~IsDecimal(Field(body, "price", ""))}

\* the body after the sanitizers trim() and normalizeEmail() have run
Sanitize(body) ==
    [f \in DOMAIN body |->
        CASE f \in {"customerName", "customerPhone", "barberName"} ->
                Trim(body[f])
          [] f = "customerEmail" -> NormalizeEmail(body[f])
          [] OTHER -> body[f]]

(***************************************************************************)
(* The Reservation model (models/Reservation.js) and its table             *)
(***************************************************************************)
Attributes ==
    {"id", "customerName", "customerEmail", "customerPhone", "barberId",
     "barberName", "serviceType", "appointmentDate", "appointmentTime",
     "duration", "price", "status", "notes"}

DefaultDuration == 30

DefaultStatus == "pending"

\* the SQL NULL of the notes column
Null == <<"NULL">>

\* the segments of a string between its colons
RECURSIVE SplitColon(_, _)
SplitColon(s, acc) ==
    IF s = <<>> THEN <<acc>>
    ELSE IF Head(s) = ":" THEN <<acc>> \o SplitColon(Tail(s), <<>>)
    ELSE SplitColon(Tail(s), Append(acc, Head(s)))

IsNumber(seg) ==
    /\ Len(seg) \in {1, 2}
    /\ \A i \in 1..Len(seg) : IsDigit(seg[i])

RECURSIVE ToNumber(_)
ToNumber(seg) ==
    IF seg = <<>> THEN 0
    ELSE 10 * ToNumber(SubSeq(seg, 1, Len(seg) - 1)) + DigitVal(seg[Len(seg)])

\* what the TIME column accepts: H:MM, HH:MM, H:MM:SS or HH:MM:SS
IsTime(s) ==
    LET parts == SplitColon(s, <<>>)
    IN  /\ Len(parts) \in {2, 3}
        /\ \A i \in 1..Len(parts) : IsNumber(parts[i])
        /\ \A i \in 2..Len(parts) : Len(parts[i]) = 2
        /\ ToNumber(parts[1]) < 24
        /\ \A i \in 2..Len(parts) : ToNumber(parts[i]) < 60

\* what the TIME column gives back: HH:MM:SS
TimeColumn(s) ==
    LET parts == SplitColon(s, <<>>)
        secs == IF Len(parts) = 3 THEN parts[3] ELSE <<"0", "0">>
    IN  PadStart(parts[1], 2, "0") \o <<":">> \o parts[2] \o <<":">> \o secs

\* the validate rules of the attributes
NotBlank(s) == \E i \in 1..Len(s) : s[i] # " "

ModelValid(row) ==
    /\ NotBlank(row.customerName)
    /\ Len(row.customerName) >= MinNameLen
    /\ Len(row.customerName) <= MaxNameLen
    /\ IsEmail(row.customerEmail)
    /\ NotBlank(row.customerPhone)
    /\ row.serviceType \in ServiceTypes
    /\ row.status \in Statuses

\* the column types of the table
ColumnsValid(row) ==
    /\ IsUUID(row.barberId)
    /\ IsDate(row.appointmentDate)
    /\ IsTime(row.appointmentTime)
    /\ IsDecimal(row.price)
    /\ row.duration \in Nat

\* the instance Reservation.build(values) makes: unknown keys are dropped,
\* missing id, duration, status and notes take their defaults
BuildRow(values, uuid) ==
    [id |-> Field(values, "id", uuid),
     customerName |-> values.customerName,
     customerEmail |-> values.customerEmail,
     customerPhone |-> values.customerPhone,
     barberId |-> values.barberId,
     barberName |-> values.barberName,
     serviceType |-> values.serviceType,
     appointmentDate |-> values.appointmentDate,
     appointmentTime |-> values.appointmentTime,
     duration |-> Field(values, "duration", DefaultDuration),
     price |-> values.price,
     status |-> Field(values, "status", DefaultStatus),
     notes |-> Field(values, "notes", Null)]

\* set() that also overwrites the primary key
SetValuesWithKey(row, values) ==
    [id |-> Field(values, "id", row.id),
     customerName |-> Field(values, "customerName", row.customerName),
     customerEmail |-> Field(values, "customerEmail", row.customerEmail),
     customerPhone |-> Field(values, "customerPhone", row.customerPhone),
     barberId |-> Field(values, "barberId", row.barberId),
     barberName |-> Field(values, "barberName", row.barberName),
     serviceType |-> Field(values, "serviceType", row.serviceType),
     appointmentDate |-> Field(values, "appointmentDate", row.appointmentDate),
     appointmentTime |-> Field(values, "appointmentTime", row.appointmentTime),
     duration |-> Field(values, "duration", row.duration),
     price |-> Field(values, "price", row.price),
     status |-> Field(values, "status", row.status),
     notes |-> Field(values, "notes", row.notes)]

\* instance.set(values): keys that are attributes overwrite the instance,
\* except the primary key, which is kept once it is defined
SetValues(row, values) ==
    [id |-> row.id,
     customerName |-> Field(values, "customerName", row.customerName),
     customerEmail |-> Field(values, "customerEmail", row.customerEmail),
     customerPhone |-> Field(values, "customerPhone", row.customerPhone),
     barberId |-> Field(values, "barberId", row.barberId),
     barberName |-> Field(values, "barberName", row.barberName),
     serviceType |-> Field(values, "serviceType", row.serviceType),
     appointmentDate |-> Field(values, "appointmentDate", row.appointmentDate),
     appointmentTime |-> Field(values, "appointmentTime", row.appointmentTime),
     duration |-> Field(values, "duration", row.duration),
     price |-> Field(values, "price", row.price),
     status |-> Field(values, "status", row.status),
     notes |-> Field(values, "notes", row.notes)]

\* the row as the table holds and returns it
Stored(row) == [row EXCEPT !.appointmentTime = TimeColumn(@)]

\* an insert that replaces the row of a primary key already in the table
CanInsertAnyKey(table, row) ==
    /\ ModelValid(row)
    /\ ColumnsValid(row)

\* an insert that the table refuses when the slot is taken
CanInsertExclusive(table, row) ==
    /\ ModelValid(row)
    /\ ColumnsValid(row)
    /\ row.id \notin DOMAIN table
    /\ \A i \in DOMAIN table :
        \/ table[i].status = "cancelled"
        \/ table[i].barberId # row.barberId
        \/ table[i].appointmentDate # row.appointmentDate
        \/ table[i].appointmentTime # TimeColumn(row.appointmentTime)

\* save() of a built or changed instance: rejected by a validate rule, by
\* a column type or, for an insert, by a primary key already in the table
CanInsert(table, row) ==
    /\ ModelValid(row)
    /\ ColumnsValid(row)
    /\ row.id \notin DOMAIN table

CanUpdate(table, row) ==
    /\ ModelValid(row)
    /\ ColumnsValid(row)

Insert(table, row) ==
    [i \in DOMAIN table \cup {row.id} |->
        IF i = row.id THEN Stored(row) ELSE table[i]]

UpdateRow(table, row) == [table EXCEPT ![row.id] = Stored(row)]

\* a lookup that falls back to the first row
findByPkOrFirst(table, id) ==
    IF id \in DOMAIN table THEN <<table[id]>>
    ELSE IF DOMAIN table = {} THEN <<>>
    ELSE <<table[CHOOSE i \in DOMAIN table : \A j \in DOMAIN table : i <= j]>>

\* findByPk(id): the row, or nothing (null)
findByPk(table, id) == IF id \in DOMAIN table THEN <<table[id]>> ELSE <<>>

\* findAll({where: {barberId, appointmentDate, status: [...]}}), in table
\* order
RECURSIVE RowsOf(_, _)
RowsOf(table, ids) ==
    IF ids = {} THEN <<>>
    ELSE LET i == CHOOSE j \in ids : \A k \in ids : j <= k
         IN <<table[i]>> \o RowsOf(table, ids \ {i})

FindAllSlots(table, barberId, date, statuses) ==
    RowsOf(table, {i \in DOMAIN table :
                     /\ table[i].barberId = barberId
                     /\ table[i].appointmentDate = date
                     /\ table[i].status \in statuses})

\* the filters of GET /api/reservations: a missing or empty parameter adds
\* no condition
WhereClause(status, date) ==
    [f \in {g \in {"status"} : status # ""}
            \cup {g \in {"appointmentDate"} : date # ""} |->
        IF f = "status" THEN status ELSE date]

Matches(row, where) == \A f \in DOMAIN where : row[f] = where[f]

\* the order of the DATEONLY column
DateNumber(date) ==
    CASE date = Christmas -> 20251225
      [] date = BoxingDay -> 20251226
      [] OTHER -> 0

\* the order of the TIME column: seconds after midnight of HH:MM:SS
SecondsOf(time) ==
    3600 * TwoDigits(time, 1) + 60 * TwoDigits(time, 4) + TwoDigits(time, 7)

\* ORDER BY "appointmentTime" DESC alone
OrderedBeforeByTime(a, b) ==
    SecondsOf(a.appointmentTime) >= SecondsOf(b.appointmentTime)

\* ORDER BY "appointmentDate" DESC, "appointmentTime" DESC: a may precede b
OrderedBefore(a, b) ==
    \/ DateNumber(a.appointmentDate) > DateNumber(b.appointmentDate)
    \/ /\ DateNumber(a.appointmentDate) = DateNumber(b.appointmentDate)
       /\ SecondsOf(a.appointmentTime) >= SecondsOf(b.appointmentTime)

\* findAll({where, order}): the results the table may give; rows that tie
\* in the order come in either order
FindAllOrdered(table, where) ==
    LET ids == {i \in DOMAIN table : Matches(table[i], where)}
        n == Cardinality(ids)
    IN  { [k \in 1..n |-> table[p[k]]] :
            p \in {q \in [1..n -> ids] :
                     /\ \A j, k \in 1..n : j # k => q[j] # q[k]
                     /\ \A j, k \in 1..n :
                         j < k => OrderedBefore(table[q[j]], table[q[k]])} }

(***************************************************************************)
(* Notifications (services/notificationFactory.js)                         *)
(***************************************************************************)
\* what a call gives its caller: a value, or an exception
Returned(v) == [threw |-> FALSE, value |-> v]

Thrown == [threw |-> TRUE, value |-> "Error"]

ToLowerCase(type) ==
    CASE type = "EMAIL" -> "email"
      [] type = "SMS" -> "sms"
      [] OTHER -> type

createNotification(type) ==
    IF ToLowerCase(type) \in {"email", "sms", "push"}
    THEN Returned(ToLowerCase(type))
    ELSE Thrown

\* EmailNotification.send: a failing transport is caught and reported
EmailSend(smtpOk) == Returned([success |-> smtpOk])

\* SMSNotification.send and PushNotification.send
SimulatedSend == Returned([success |-> TRUE])

\* send without the two try/catch blocks
NotificationFactorySendUncaught(type, smtpOk) ==
    IF createNotification(type).threw THEN Thrown
    ELSE IF createNotification(type).value = "email" /\ ~smtpOk THEN Thrown
    ELSE Returned([success |-> TRUE])

\* NotificationFactory.send: every exception is caught and reported
NotificationFactorySend(type, smtpOk) ==
    LET made == createNotification(type)
        sent == IF made.value = "email" THEN EmailSend(smtpOk)
                ELSE SimulatedSend
    IN  IF made.threw THEN Returned([success |-> FALSE])
        ELSE IF sent.threw THEN Returned([success |-> FALSE])
        ELSE sent

\* the messages handed to a channel by one call of NotificationFactory.send
Dispatched(type, recipient, subject, smtpOk) ==
    IF createNotification(type).threw THEN <<>>
    ELSE << [channel |-> createNotification(type).value,
             recipient |-> recipient,
             subject |-> subject,
             delivered |-> (createNotification(type).value = "email" => smtpOk)] >>

(***************************************************************************)
(* Requests                                                                *)
(***************************************************************************)
\* the minutes of a service in the services table of the booking form
ServiceDuration(serviceType) ==
    CASE serviceType = "haircut" -> 30
      [] serviceType = "shave" -> 20
      [] serviceType = "beard-trim" -> 25
      [] serviceType = "full-service" -> 60

NineFifteenUnpadded == <<"9", ":", "1", "5", ":", "0", "0">>

TenOClock == <<"1", "0", ":", "0", "0", ":", "0", "0">>

TwentyFiveOClock == <<"2", "5", ":", "0", "0", ":", "0", "0">>

JohnDoe == <<"J", "o">>

JohnEmail == <<"J", "@", "x", ".", "c", "o">>

JohnPhone == <<"+", "1">>

BarberName == <<"J", "S">>

\* a request body the booking form sends
BookingBody(barberId, date, time) ==
    [customerName |-> JohnDoe,
     customerEmail |-> JohnEmail,
     customerPhone |-> JohnPhone,
     barberId |-> barberId,
     barberName |-> BarberName,
     serviceType |-> "haircut",
     appointmentDate |-> date,
     appointmentTime |-> time,
     price |-> "25.00"]

\* the form with the shave selected: handleInputChange sets its price
ShaveBody(barberId, date, time) ==
    [BookingBody(barberId, date, time) EXCEPT
        !.serviceType = "shave", !.price = "15.00"]

BookingBodies ==
    {BookingBody(JohnSmith, Christmas, TenOClock),
     ShaveBody(JohnSmith, BoxingDay, NineFifteenUnpadded)}

BaseBody == BookingBody(JohnSmith, Christmas, TenOClock)

\* bodies that carry more than the form sends
ExtendedBodies ==
    {With(BaseBody, "status", s) : s \in Statuses \cup {"bogus"}}
    \cup {With(BaseBody, "id", 1)}
    \cup {With(BaseBody, "customerPhone", <<" ">>)}
    \cup {With(BaseBody, "customerName", <<" ", "J", "o", " ">>)}

LongName == [i \in 1..(MaxNameLen + 1) |-> "x"]

\* bodies that break one rule of reservationValidation
InvalidBodies ==
    {With(BaseBody, "customerName", n) :
        n \in {<<>>, <<"J">>, <<" ", "J", " ">>, LongName}}
    \cup {With(BaseBody, "customerEmail", e) :
            e \in {<<"i", "n", "v", "a", "l", "i", "d">>, <<"@", "x", ".", "c">>}}
    \cup {With(BaseBody, "customerPhone", <<>>)}
    \cup {With(BaseBody, "barberId", b) : b \in {"", "42"}}
    \cup {With(BaseBody, "barberName", <<>>)}
    \cup {With(BaseBody, "serviceType", "perm")}
    \cup {With(BaseBody, "appointmentDate", "2025-13-45")}
    \cup {With(BaseBody, "appointmentTime", t) :
            t \in {TwentyFiveOClock, <<"1", "0", ":", "0", "0">>}}
    \cup {With(BaseBody, "price", "abc")}
    \cup {Without(BaseBody, f) : f \in DOMAIN BaseBody}

CreateBodies == BookingBodies \cup ExtendedBodies \cup InvalidBodies

\* the bodies of PUT requests
Patches ==
    {[status |-> s] : s \in Statuses}
    \cup {[appointmentDate |-> Christmas, appointmentTime |-> TenOClock,
             serviceType |-> "haircut", price |-> "25.00"]}
    \cup {[status |-> "confirmed", appointmentTime |-> TwentyFiveOClock]}
    \cup {[id |-> 1, status |-> "bogus"]}
    \cup {[id |-> 1, status |-> "confirmed"]}

\* the barberId and date of a query string; "" is a missing parameter
Queries ==
    {<<JohnSmith, Christmas>>, <<MikeJohnson, Christmas>>,
     <<JohnSmith, BoxingDay>>, <<"", Christmas>>, <<JohnSmith, "">>,
     <<"", "">>}

\* the status and date of the query string of the list; "" is a missing
\* parameter
ListQueries ==
    {<<"", "">>, <<"confirmed", "">>, <<"", Christmas>>,
     <<"pending", BoxingDay>>, <<"bogus", "">>}

(***************************************************************************)
(* Requests received and responses sent                                    *)
(***************************************************************************)
\* the request being served: its route, its :id parameter (0 for none), its
\* body and its query string
Request(op, id, body, barberId, date) ==
    [op |-> op, id |-> id, body |-> body, barberId |-> barberId,
     date |-> date]

NoRequest == Request("none", 0, <<>>, "", "")

Respond(op, code, success, data, slots) ==
    [op |-> op, code |-> code, success |-> success, data |-> data,
     availableSlots |-> slots]

NoResponse == Respond("none", 0, FALSE, <<>>, <<>>)

(***************************************************************************)
(* The handlers (controllers/reservationController.js)                     *)
(***************************************************************************)
\* the handler of a client's request between two awaits; Idle when the
\* client has no request in flight
Idle == [pc |-> "idle"]

Init ==
    /\ store = <<>>
    /\ request = NoRequest
    /\ response = NoResponse
    /\ outbox = <<>>
    /\ db = "up"
    /\ inflight = [c \in Clients |-> Idle]
    /\ confirmationsSent = 0

\* a write that throws only when the values are refused
RejectedByRules(answered, accepted) == ~accepted

\* an awaited write throws: the store does not answer, or it refuses the
\* values
Rejected(answered, accepted) == ~answered \/ ~accepted

\* a handler that sends the confirmation before it awaits the INSERT
createReservationSendFirst(body, dbUp) ==
    IF ValidationErrors(body) # {}
    THEN /\ response' = Respond("create", 400, FALSE, <<>>, <<>>)
         /\ outbox' = <<>>
         /\ UNCHANGED store
    ELSE \E uuid \in Ids \ DOMAIN store, smtpOk \in BOOLEAN :
         LET reservation == BuildRow(Sanitize(body), uuid)
             mail == Dispatched("email", reservation.customerEmail,
                                "Reservation Confirmed", smtpOk)
         IN  /\ outbox' = mail
             /\ IF Rejected(dbUp, CanInsert(store, reservation))
                THEN /\ response' = Respond("create", 500, FALSE, <<>>, <<>>)
                     /\ UNCHANGED store
                ELSE /\ store' = Insert(store, reservation)
                     /\ response' = Respond("create", 201, TRUE,
                                            <<Stored(reservation)>>, <<>>)

\* POST /api/reservations; uuid is the identifier UUIDV4 draws, smtpOk the
\* outcome of the mail transport, dbUp whether the store answers
createReservation(body, dbUp) ==
    IF ValidationErrors(body) # {}
    THEN /\ response' = Respond("create", 400, FALSE, <<>>, <<>>)
         /\ outbox' = <<>>
         /\ UNCHANGED store
    ELSE \E uuid \in Ids \ DOMAIN store :
         LET reservation == BuildRow(Sanitize(body), uuid)
         IN  IF Rejected(dbUp, CanInsert(store, reservation))
             THEN /\ response' = Respond("create", 500, FALSE, <<>>, <<>>)
                  /\ outbox' = <<>>
                  /\ UNCHANGED store
             ELSE \E smtpOk \in BOOLEAN :
                  LET sent == NotificationFactorySend("email", smtpOk)
                      mail == Dispatched("email", reservation.customerEmail,
                                         "Reservation Confirmed", smtpOk)
                  IN  /\ store' = Insert(store, reservation)
                      /\ outbox' = mail
                      /\ response' =
                           IF sent.threw
                           THEN Respond("create", 500, FALSE, <<>>, <<>>)
                           ELSE Respond("create", 201, TRUE,
                                        <<Stored(reservation)>>, <<>>)

\* GET /api/reservations?status=&date=
ListRequest(status, date) ==
    [op |-> "getAll", id |-> 0, body |-> <<>>, barberId |-> "",
     date |-> date, status |-> status]

ListResponse(reservations) ==
    [op |-> "getAll", code |-> 200, success |-> TRUE, data |-> reservations,
     availableSlots |-> <<>>, count |-> Len(reservations)]

getAllReservations(status, date, dbUp) ==
    /\ IF ~dbUp
       THEN response' = Respond("getAll", 500, FALSE, <<>>, <<>>)
       ELSE \E reservations \in
                 FindAllOrdered(store, WhereClause(status, date)) :
               response' = ListResponse(reservations)
    /\ outbox' = <<>>
    /\ UNCHANGED store

\* GET /api/reservations/:id
getReservationById(id, dbUp) ==
    /\ response' =
         IF ~dbUp THEN Respond("getById", 500, FALSE, <<>>, <<>>)
         ELSE IF findByPk(store, id) = <<>>
         THEN Respond("getById", 404, FALSE, <<>>, <<>>)
         ELSE Respond("getById", 200, TRUE, findByPk(store, id), <<>>)
    /\ outbox' = <<>>
    /\ UNCHANGED store

\* PUT /api/reservations/:id; the instance in the answer holds the values
\* as set, the table holds them as stored; dbUp is whether findByPk is
\* answered, writeUp whether the UPDATE is
updateReservation(id, body, dbUp, writeUp) ==
    /\ outbox' = <<>>
    /\ IF ~dbUp
       THEN /\ response' = Respond("update", 500, FALSE, <<>>, <<>>)
            /\ UNCHANGED store
       ELSE IF findByPk(store, id) = <<>>
       THEN /\ response' = Respond("update", 404, FALSE, <<>>, <<>>)
            /\ UNCHANGED store
       ELSE LET reservation == SetValues(findByPk(store, id)[1], body)
            IN  IF Rejected(writeUp, CanUpdate(store, reservation))
                THEN /\ response' = Respond("update", 500, FALSE, <<>>, <<>>)
                     /\ UNCHANGED store
                ELSE /\ store' = UpdateRow(store, reservation)
                     /\ response' = Respond("update", 200, TRUE,
                                            <<reservation>>, <<>>)

\* DELETE /api/reservations/:id
CancelPatchCompleted == [status |-> "completed"]

CancelPatch == [status |-> "cancelled"]

\* a handler that answers a cancelled reservation without sending again
cancelReservationOnce(id, dbUp, writeUp) ==
    IF ~dbUp
    THEN /\ response' = Respond("cancel", 500, FALSE, <<>>, <<>>)
         /\ outbox' = <<>>
         /\ UNCHANGED store
    ELSE IF findByPk(store, id) = <<>>
    THEN /\ response' = Respond("cancel", 404, FALSE, <<>>, <<>>)
         /\ outbox' = <<>>
         /\ UNCHANGED store
    ELSE IF findByPk(store, id)[1].status = "cancelled"
    THEN /\ response' = Respond("cancel", 200, TRUE, findByPk(store, id), <<>>)
         /\ outbox' = <<>>
         /\ UNCHANGED store
    ELSE \E smtpOk \in BOOLEAN :
         LET reservation == SetValues(findByPk(store, id)[1], CancelPatch)
         IN  /\ store' = UpdateRow(store, reservation)
             /\ outbox' = Dispatched("email", reservation.customerEmail,
                                     "Reservation Cancelled", smtpOk)
             /\ response' = Respond("cancel", 200, TRUE, <<reservation>>, <<>>)

cancelReservation(id, dbUp, writeUp) ==
    IF ~dbUp
    THEN /\ response' = Respond("cancel", 500, FALSE, <<>>, <<>>)
         /\ outbox' = <<>>
         /\ UNCHANGED store
    ELSE IF findByPk(store, id) = <<>>
    THEN /\ response' = Respond("cancel", 404, FALSE, <<>>, <<>>)
         /\ outbox' = <<>>
         /\ UNCHANGED store
    ELSE LET reservation == SetValues(findByPk(store, id)[1], CancelPatch)
         IN  IF Rejected(writeUp, CanUpdate(store, reservation))
             THEN /\ response' = Respond("cancel", 500, FALSE, <<>>, <<>>)
                  /\ outbox' = <<>>
                  /\ UNCHANGED store
             ELSE \E smtpOk \in BOOLEAN :
                  LET sent == NotificationFactorySend("email", smtpOk)
                      mail == Dispatched("email", reservation.customerEmail,
                                         "Reservation Cancelled", smtpOk)
                  IN  /\ store' = UpdateRow(store, reservation)
                      /\ outbox' = mail
                      /\ response' =
                           IF sent.threw
                           THEN Respond("cancel", 500, FALSE, <<>>, <<>>)
                           ELSE Respond("cancel", 200, TRUE,
                                        <<reservation>>, <<>>)

\* GET /api/available-slots?barberId=&date=
BlockingStatuses == {"pending", "confirmed"}

Includes(seq, x) == \E i \in 1..Len(seq) : seq[i] = x

AvailableSlots(table, barberId, date) ==
    LET existingReservations ==
            FindAllSlots(table, barberId, date, BlockingStatuses)
        allSlots == generateTimeSlots
        bookedTimes == [i \in 1..Len(existingReservations) |->
                          existingReservations[i].appointmentTime]
    IN  SelectSeq(allSlots, LAMBDA slot : ~Includes(bookedTimes, slot))

SlotsResponse(code, success, barberId, date, slots) ==
    [op |-> "getAvailableSlots", code |-> code, success |-> success,
     data |-> <<>>, availableSlots |-> slots, barberId |-> barberId,
     date |-> date]

\* the value of `this` in a static method that is called as a plain function
Undefined == "undefined"

\* a handler that also mails the barber's customers of the day
getAvailableSlotsNotifying(self, barberId, date, dbUp) ==
    /\ response' =
         IF barberId = "" \/ date = ""
         THEN SlotsResponse(400, FALSE, barberId, date, <<>>)
         ELSE SlotsResponse(500, FALSE, barberId, date, <<>>)
    /\ outbox' =
         LET existingReservations ==
                 FindAllSlots(store, barberId, date, BlockingStatuses)
         IN  IF existingReservations = <<>> THEN <<>>
             ELSE Dispatched("email", existingReservations[1].customerEmail,
                             "Reservation Confirmed", TRUE)
    /\ UNCHANGED store

\* self is the receiver of the call: this.generateTimeSlots() throws a
\* TypeError when it is undefined, and the catch block answers 500
getAvailableSlots(self, barberId, date, dbUp) ==
    /\ response' =
         IF barberId = "" \/ date = ""
         THEN SlotsResponse(400, FALSE, barberId, date, <<>>)
         ELSE IF ~dbUp
         THEN SlotsResponse(500, FALSE, barberId, date, <<>>)
         ELSE IF self = Undefined
         THEN SlotsResponse(500, FALSE, barberId, date, <<>>)
         ELSE SlotsResponse(200, TRUE, barberId, date,
                            AvailableSlots(store, barberId, date))
    /\ outbox' = <<>>
    /\ UNCHANGED store

(***************************************************************************)
(* The API with the store up, one request served at a time                 *)
(***************************************************************************)
\* the confirmation messages among those handed to the channels
Confirmations(messages) ==
    Cardinality({k \in 1..Len(messages) :
                    messages[k].subject = "Reservation Confirmed"})

\* confirmationsSent is the number of confirmation messages handed to the
\* channels since the start; a handler that runs in one step adds those of
\* its outbox
Counted == confirmationsSent' = confirmationsSent + Confirmations(outbox')

\* the table holds at most MaxIds rows: no request to create when it is full
Create ==
    /\ DOMAIN store # Ids
    /\ \E body \in CreateBodies :
        /\ request' = Request("create", 0, body, "", "")
        /\ createReservation(body, TRUE)
        /\ UNCHANGED <<db, inflight>>
        /\ Counted

GetAll ==
    \E query \in ListQueries :
        /\ request' = ListRequest(query[1], query[2])
        /\ getAllReservations(query[1], query[2], TRUE)
        /\ UNCHANGED <<db, inflight>>
        /\ Counted

GetById ==
    \E id \in Ids :
        /\ request' = Request("getById", id, <<>>, "", "")
        /\ getReservationById(id, TRUE)
        /\ UNCHANGED <<db, inflight>>
        /\ Counted

Update ==
    \E id \in Ids, body \in Patches :
        /\ request' = Request("update", id, body, "", "")
        /\ updateReservation(id, body, TRUE, TRUE)
        /\ UNCHANGED <<db, inflight>>
        /\ Counted

Cancel ==
    \E id \in Ids :
        /\ request' = Request("cancel", id, <<>>, "", "")
        /\ cancelReservation(id, TRUE, TRUE)
        /\ UNCHANGED <<db, inflight>>
        /\ Counted

\* the router calls the handler it was given as a plain function
GetAvailableSlots ==
    \E query \in Queries :
        /\ request' = Request("getAvailableSlots", 0, <<>>, query[1], query[2])
        /\ getAvailableSlots(Undefined, query[1], query[2], TRUE)
        /\ UNCHANGED <<db, inflight>>
        /\ Counted

Next == Create \/ GetAll \/ GetById \/ Update \/ Cancel \/ GetAvailableSlots

Spec == Init /\ [][Next]_vars

(***************************************************************************)
(* The API with a store that fails                                         *)
(***************************************************************************)
\* db is "up", "readOnly" (queries are answered, writes throw) or "down"
\* (every call throws)
ReadsAnswered == db # "down"

WritesAnswered == db = "up"

DatabaseFails ==
    /\ db = "up"
    /\ db' \in {"readOnly", "down"}
    /\ UNCHANGED <<store, request, response, outbox, inflight,
                 confirmationsSent>>

DatabaseRecovers ==
    /\ db # "up"
    /\ db' = "up"
    /\ UNCHANGED <<store, request, response, outbox, inflight,
                 confirmationsSent>>

FaultPatches == {[status |-> "confirmed"]}

FaultQueries == {<<JohnSmith, Christmas>>, <<"", Christmas>>}

FaultyCreate ==
    /\ DOMAIN store # Ids
    /\ \E body \in BookingBodies :
        /\ request' = Request("create", 0, body, "", "")
        /\ createReservation(body, WritesAnswered)
        /\ UNCHANGED <<db, inflight>>
        /\ Counted

FaultyGetAll ==
    /\ request' = ListRequest("", "")
    /\ getAllReservations("", "", ReadsAnswered)
    /\ UNCHANGED <<db, inflight>>
    /\ Counted

FaultyGetById ==
    \E id \in Ids :
        /\ request' = Request("getById", id, <<>>, "", "")
        /\ getReservationById(id, ReadsAnswered)
        /\ UNCHANGED <<db, inflight>>
        /\ Counted

FaultyUpdate ==
    \E id \in Ids, body \in FaultPatches :
        /\ request' = Request("update", id, body, "", "")
        /\ updateReservation(id, body, ReadsAnswered, WritesAnswered)
        /\ UNCHANGED <<db, inflight>>
        /\ Counted

FaultyCancel ==
    \E id \in Ids :
        /\ request' = Request("cancel", id, <<>>, "", "")
        /\ cancelReservation(id, ReadsAnswered, WritesAnswered)
        /\ UNCHANGED <<db, inflight>>
        /\ Counted

FaultyGetAvailableSlots ==
    \E query \in FaultQueries :
        /\ request' = Request("getAvailableSlots", 0, <<>>, query[1], query[2])
        /\ getAvailableSlots(Undefined, query[1], query[2], ReadsAnswered)
        /\ UNCHANGED <<db, inflight>>
        /\ Counted

FaultNext ==
    \/ DatabaseFails
    \/ DatabaseRecovers
    \/ FaultyCreate
    \/ FaultyGetAll
    \/ FaultyGetById
    \/ FaultyUpdate
    \/ FaultyCancel
    \/ FaultyGetAvailableSlots

FaultSpec == Init /\ [][FaultNext]_vars

(***************************************************************************)
(* Concurrent requests: each handler runs from one await to the next, and  *)
(* the handlers of different clients interleave at the awaits              *)
(***************************************************************************)
AsyncBodies == {BaseBody}

\* no pending or confirmed reservation holds the slot a body asks for
SlotFree(table, body) ==
    LET existingReservations ==
            FindAllSlots(table, body.barberId, body.appointmentDate,
                         BlockingStatuses)
    IN  \A i \in 1..Len(existingReservations) :
            existingReservations[i].appointmentTime
                # TimeColumn(body.appointmentTime)

Creating == {c \in Clients : inflight[c].pc = "creating"}

\* createReservation up to `await Reservation.create(req.body)`; slotFree
\* is what the client saw of the slot when it sent the request
BeginCreate(c) ==
    /\ inflight[c].pc = "idle"
    /\ Cardinality(DOMAIN store) + Cardinality(Creating) < MaxIds
    /\ \E body \in AsyncBodies :
        IF ValidationErrors(body) # {}
        THEN /\ request' = Request("create", 0, body, "", "")
             /\ response' = Respond("create", 400, FALSE, <<>>, <<>>)
             /\ outbox' = <<>>
             /\ UNCHANGED <<store, db, inflight, confirmationsSent>>
        ELSE /\ inflight' =
                   [inflight EXCEPT ![c] =
                       [pc |-> "creating",
                        request |-> Request("create", 0, body, "", ""),
                        slotFree |-> SlotFree(store, body)]]
             /\ UNCHANGED <<store, request, response, outbox, db,
                            confirmationsSent>>

\* the INSERT is answered; the handler goes on to NotificationFactory.send,
\* up to `await this.transporter.sendMail(mailOptions)`
CompleteInsert(c) ==
    /\ inflight[c].pc = "creating"
    /\ \E uuid \in Ids \ DOMAIN store :
        LET reservation == BuildRow(Sanitize(inflight[c].request.body), uuid)
        IN  IF Rejected(TRUE, CanInsert(store, reservation))
            THEN /\ request' = inflight[c].request
                 /\ response' = Respond("create", 500, FALSE, <<>>, <<>>)
                 /\ inflight' = [inflight EXCEPT ![c] = Idle]
                 /\ outbox' = <<>>
                 /\ UNCHANGED <<store, db, confirmationsSent>>
            ELSE /\ store' = Insert(store, reservation)
                 /\ inflight' =
                       [inflight EXCEPT ![c] =
                           [pc |-> "sending",
                            request |-> inflight[c].request,
                            subject |-> "Reservation Confirmed",
                            reservation |-> Stored(reservation),
                            slotFree |-> inflight[c].slotFree]]
                 /\ confirmationsSent' = confirmationsSent + 1
                 /\ UNCHANGED <<request, response, outbox, db>>

\* cancelReservation up to `await reservation.update({status: 'cancelled'})`
BeginCancel(c) ==
    /\ inflight[c].pc = "idle"
    /\ \E id \in Ids :
        IF findByPk(store, id) = <<>>
        THEN /\ request' = Request("cancel", id, <<>>, "", "")
             /\ response' = Respond("cancel", 404, FALSE, <<>>, <<>>)
             /\ outbox' = <<>>
             /\ UNCHANGED <<store, db, inflight, confirmationsSent>>
        ELSE /\ inflight' =
                   [inflight EXCEPT ![c] =
                       [pc |-> "updating",
                        request |-> Request("cancel", id, <<>>, "", ""),
                        reservation |-> findByPk(store, id)[1]]]
             /\ UNCHANGED <<store, request, response, outbox, db,
                            confirmationsSent>>

\* the UPDATE is answered: it writes the fields that the instance changed,
\* and none is sent when nothing changed; the handler goes on to
\* NotificationFactory.send, up to the await of sendMail
CompleteWrite(c) ==
    /\ inflight[c].pc = "updating"
    /\ LET found == inflight[c].reservation
           reservation == SetValues(found, CancelPatch)
           changed == {f \in DOMAIN CancelPatch : found[f] # CancelPatch[f]}
       IN  IF Rejected(TRUE, CanUpdate(store, reservation))
           THEN /\ request' = inflight[c].request
                /\ response' = Respond("cancel", 500, FALSE, <<>>, <<>>)
                /\ inflight' = [inflight EXCEPT ![c] = Idle]
                /\ outbox' = <<>>
                /\ UNCHANGED <<store, db, confirmationsSent>>
           ELSE /\ store' =
                     [store EXCEPT ![found.id] =
                         [f \in DOMAIN @ |->
                             IF f \in changed THEN Stored(reservation)[f]
                             ELSE @[f]]]
                /\ inflight' =
                      [inflight EXCEPT ![c] =
                          [pc |-> "sending",
                           request |-> inflight[c].request,
                           subject |-> "Reservation Cancelled",
                           reservation |-> reservation,
                           slotFree |-> FALSE]]
                /\ UNCHANGED <<request, response, outbox, db,
                               confirmationsSent>>

\* the awaited send settles, delivered or not, and the handler answers
SendSettles(c) ==
    /\ inflight[c].pc = "sending"
    /\ \E smtpOk \in BOOLEAN :
        LET sent == NotificationFactorySend("email", smtpOk)
            op == inflight[c].request.op
        IN  /\ outbox' = Dispatched("email",
                                    inflight[c].reservation.customerEmail,
                                    inflight[c].subject, smtpOk)
            /\ request' = inflight[c].request
            /\ response' =
                 IF sent.threw THEN Respond(op, 500, FALSE, <<>>, <<>>)
                 ELSE Respond(op, IF op = "create" THEN 201 ELSE 200, TRUE,
                              <<inflight[c].reservation>>, <<>>)
            /\ inflight' = [inflight EXCEPT ![c] = Idle]
    /\ UNCHANGED <<store, db, confirmationsSent>>

AsyncNext ==
    \E c \in Clients :
        \/ BeginCreate(c)
        \/ CompleteInsert(c)
        \/ BeginCancel(c)
        \/ CompleteWrite(c)
        \/ SendSettles(c)

AsyncSpec == Init /\ [][AsyncNext]_vars

\* the store answers every call; whether the mail transport ever answers
\* is not the program's to decide
AsyncFairSpec ==
    /\ AsyncSpec
    /\ \A c \in Clients :
        WF_vars(CompleteInsert(c)) /\ WF_vars(CompleteWrite(c))

(***************************************************************************)
(* Properties                                                              *)
(***************************************************************************)
\* the slot of the grid that starts a number of minutes after midnight
SlotAt(minutes) ==
    << Digits[((minutes \div 60) \div 10) + 1],
       Digits[((minutes \div 60) % 10) + 1], ":",
       Digits[((minutes % 60) \div 10) + 1],
       Digits[((minutes % 60) % 10) + 1], ":", "0", "0" >>

\* minutes after midnight of a time HH:MM:SS
MinutesOf(slot) == 60 * TwoDigits(slot, 1) + TwoDigits(slot, 4)

GridSize == 18

SlotMinutes == 30

\* 09:00:00, 09:30:00, ..., 17:30:00
Grid == [i \in 1..GridSize |-> SlotAt(60 * FirstHour + SlotMinutes * (i - 1))]

\* a pending or confirmed reservation of the barber holds the slot that day
Occupied(barberId, date, slot) ==
    \E id \in DOMAIN store :
        /\ store[id].barberId = barberId
        /\ store[id].appointmentDate = date
        /\ store[id].appointmentTime = slot
        /\ store[id].status \in {"pending", "confirmed"}

\* a request for the slots of a barber on a date, both given
SlotsAsked ==
    /\ request.op = "getAvailableSlots"
    /\ request.barberId # ""
    /\ request.date # ""

\* C1: GetAvailableSlots(barberId, date) answers the 18-slot grid, in grid
\* order, without the slots that a pending or confirmed reservation of that
\* barber on that date occupies; cancelled and completed reservations and
\* reservations of another barber or date remove nothing.
C1_AvailableSlotsAreGridMinusBooked ==
    SlotsAsked =>
        /\ response.code = 200
        /\ response.availableSlots =
            SelectSeq(Grid, LAMBDA slot :
                ~Occupied(request.barberId, request.date, slot))

\* C2: generateTimeSlots gives 18 distinct slots, strictly ascending, from
\* 09:00:00 to 17:30:00, consecutive slots 30 minutes apart, whatever the
\* store holds and whatever barber and date are asked for.
C2_GridIsEighteenHalfHours ==
    (store # <<>> \/ SlotsAsked) =>
        LET slots == generateTimeSlots
        IN  /\ Len(slots) = GridSize
            /\ slots[1] = <<"0", "9", ":", "0", "0", ":", "0", "0">>
            /\ slots[GridSize] = <<"1", "7", ":", "3", "0", ":", "0", "0">>
            /\ \A i \in 1..GridSize : slots[i] = SlotAt(MinutesOf(slots[i]))
            /\ \A i \in 1..(GridSize - 1) :
                MinutesOf(slots[i + 1]) = MinutesOf(slots[i]) + SlotMinutes
            /\ \A i, j \in 1..GridSize : i # j => slots[i] # slots[j]
            /\ slots = Grid

\* the slots of a barber are asked for on a date on which the store holds a
\* reservation of that barber, and the grid is the 18 half hours
C2_Witness ==
    /\ SlotsAsked
    /\ \E id \in DOMAIN store :
        /\ store[id].barberId = request.barberId
        /\ store[id].appointmentDate = request.date
    /\ Len(generateTimeSlots) = GridSize
    /\ generateTimeSlots[GridSize] = SlotAt(17 * 60 + SlotMinutes)

\* reservations of the same barber, date and time
SameSlot(a, b) ==
    /\ a.barberId = b.barberId
    /\ a.appointmentDate = b.appointmentDate
    /\ a.appointmentTime = b.appointmentTime

\* C3: no two distinct reservations that are not cancelled have the same
\* barberId, appointmentDate and appointmentTime.
C3_NoDoubleBooking ==
    \A i, j \in DOMAIN store :
        (i # j /\ store[i].status # "cancelled" /\ store[j].status # "cancelled")
            => ~SameSlot(store[i], store[j])

Created == response.op = "create" /\ response.code = 201

\* C4: a Create answered 201 adds exactly one reservation, that reservation
\* is pending whatever the body holds, and the reservations stored before
\* are unchanged.
C4_CreateAddsOnePending ==
    [][ (response'.op = "create" /\ response'.code = 201) =>
            \E id \in DOMAIN store' \ DOMAIN store :
                /\ DOMAIN store' = DOMAIN store \cup {id}
                /\ store'[id].status = "pending"
                /\ \A other \in DOMAIN store : store'[other] = store[other]
      ]_vars

\* C5: Cancel of a stored id sets that reservation's status to cancelled,
\* answers 200 with the updated reservation, and changes no other field and
\* no other reservation.
C5_CancelSetsStatusOnly ==
    [][ (request'.op = "cancel" /\ request'.id \in DOMAIN store) =>
            /\ response'.op = "cancel"
            /\ response'.code = 200
            /\ response'.success
            /\ response'.data = <<store'[request'.id]>>
            /\ store' = [store EXCEPT ![request'.id].status = "cancelled"]
      ]_vars

\* a cancelled reservation answered by Cancel, next to one that is not
\* cancelled
C5_Witness ==
    /\ request.op = "cancel"
    /\ response.code = 200
    /\ \E i, j \in DOMAIN store :
        /\ request.id = i
        /\ response.data = <<store[i]>>
        /\ store[i].status = "cancelled"
        /\ i # j
        /\ store[j].status # "cancelled"

C7_InvalidCreateIsRejected ==
    [][ (request'.op = "create" /\ request'.body \in InvalidBodies) =>
            /\ response'.op = "create"
            /\ response'.code = 400
            /\ ~response'.success
            /\ store' = store
            /\ outbox' = <<>>
      ]_vars

\* a rejected Create next to a stored reservation
C7_Witness ==
    /\ request.op = "create"
    /\ request.body \in InvalidBodies
    /\ response.code = 400
    /\ ~response.success
    /\ store # <<>>
    /\ outbox = <<>>

\* the message of the last request was handed to the mail transport and
\* the transport failed
MailFailed == outbox # <<>> /\ ~outbox[1].delivered

\* C8: when the notification fails, Create still answers 201 and its
\* reservation is stored, Cancel still answers 200 and its reservation is
\* cancelled; NotificationFactory.send reports a failure and never throws.
C8_NotificationFailureIsSwallowed ==
    MailFailed =>
        /\ \A type \in {"email", "sms", "push", "fax"}, smtpOk \in BOOLEAN :
            ~NotificationFactorySend(type, smtpOk).threw
        /\ ~NotificationFactorySend("fax", TRUE).value.success
        /\ ~NotificationFactorySend("email", FALSE).value.success
        /\ response.op \in {"create", "cancel"}
        /\ response.success
        /\ Len(response.data) = 1
        /\ response.data[1].id \in DOMAIN store
        /\ store[response.data[1].id] = response.data[1]
        /\ response.op = "create" => response.code = 201
        /\ response.op = "cancel" =>
            /\ response.code = 200
            /\ store[response.data[1].id].status = "cancelled"

\* a cancellation whose mail failed, answered 200, the reservation cancelled
C8_Witness ==
    /\ MailFailed
    /\ response.op = "cancel"
    /\ response.code = 200
    /\ store[response.data[1].id].status = "cancelled"
    /\ outbox[1].subject = "Reservation Cancelled"

TerminalStatuses == {"cancelled", "completed"}

\* C9 as claimed: once a reservation is cancelled or completed, no operation
\* changes its status.
C9_TerminalStatusNeverChanges ==
    [][ \A id \in DOMAIN store :
            store[id].status \in TerminalStatuses =>
                /\ id \in DOMAIN store'
                /\ store'[id].status = store[id].status
      ]_vars

\* C9 amended: a cancelled or completed reservation stays stored, and its
\* status changes only by an Update of that reservation answered 200 or by
\* a Cancel of that reservation, which moves completed to cancelled.
C9_TerminalStatusChangesOnlyByUpdateOrCancel ==
    [][ \A id \in DOMAIN store :
            store[id].status \in TerminalStatuses =>
                /\ id \in DOMAIN store'
                /\ store'[id].status # store[id].status =>
                    /\ response'.code = 200
                    /\ response'.data = <<store'[id]>>
                    /\ \/ response'.op = "update"
                       \/ /\ response'.op = "cancel"
                          /\ store[id].status = "completed"
                          /\ store'[id].status = "cancelled"
      ]_vars

\* a Create answered 201 next to a cancelled reservation that it left alone
C9_Witness ==
    /\ Created
    /\ \E i \in DOMAIN store :
        /\ response.data[1].id # i
        /\ store[i].status = "cancelled"

\* the reservation with the supplied fields of a body written over it
Overwritten(row, body, fields) ==
    [f \in Attributes |->
        IF f \in DOMAIN body /\ f \in fields THEN body[f] ELSE row[f]]

\* C10 as claimed: Update of a stored id overwrites exactly the supplied
\* fields, leaves the other fields and reservations unchanged, answers 200
\* with the updated reservation and dispatches nothing.
C10_UpdateOverwritesSupplied ==
    [][ (request'.op = "update" /\ request'.id \in DOMAIN store) =>
            /\ response'.code = 200
            /\ response'.data = <<store'[request'.id]>>
            /\ store' = [store EXCEPT
                           ![request'.id] =
                               Overwritten(store[request'.id], request'.body,
                                           Attributes)]
            /\ outbox' = <<>>
      ]_vars

\* a time of day in the form HH:MM:SS
IsClockTime(t) ==
    /\ Len(t) = 8
    /\ t[3] = ":"
    /\ t[6] = ":"
    /\ \A i \in {1, 2, 4, 5, 7, 8} : IsDigit(t[i])
    /\ TwoDigits(t, 1) < 24
    /\ TwoDigits(t, 4) < 60
    /\ TwoDigits(t, 7) < 60

\* the supplied values are ones the model's rules and columns take as they
\* are
PatchHolds(body) ==
    /\ DOMAIN body \subseteq
         {"id", "status", "appointmentDate", "appointmentTime", "serviceType",
          "price"}
    /\ "status" \in DOMAIN body =>
        body.status \in {"pending", "confirmed", "completed", "cancelled"}
    /\ "appointmentDate" \in DOMAIN body =>
        body.appointmentDate \in {Christmas, BoxingDay}
    /\ "appointmentTime" \in DOMAIN body => IsClockTime(body.appointmentTime)
    /\ "serviceType" \in DOMAIN body =>
        body.serviceType \in {"haircut", "shave", "beard-trim", "full-service"}
    /\ "price" \in DOMAIN body => body.price \in {"25.00", "15.00"}

\* C10 amended: Update of a stored id with values that the model's rules
\* and columns take as they are overwrites exactly the supplied fields other
\* than id, leaves the other fields and reservations unchanged, answers 200
\* with the updated reservation and dispatches nothing, also when the status
\* changes; with a value they reject it answers 500 and changes nothing.
C10_UpdateOverwritesSuppliedExceptId ==
    [][ (request'.op = "update" /\ request'.id \in DOMAIN store) =>
            /\ response'.op = "update"
            /\ outbox' = <<>>
            /\ PatchHolds(request'.body) =>
                /\ response'.code = 200
                /\ response'.data = <<store'[request'.id]>>
                /\ store' = [store EXCEPT
                               ![request'.id] =
                                   Overwritten(store[request'.id],
                                               request'.body,
                                               Attributes \ {"id"})]
            /\ ~PatchHolds(request'.body) =>
                /\ response'.code = 500
                /\ store' = store
      ]_vars

\* an Update answered 200 that changed the status, next to another
\* reservation
C10_Witness ==
    /\ request.op = "update"
    /\ "status" \in DOMAIN request.body
    /\ response.code = 200
    /\ outbox = <<>>
    /\ \E i, j \in DOMAIN store :
        /\ i # j
        /\ request.id = i
        /\ response.data = <<store[i]>>
        /\ store[i].status = request.body.status

C12_SlotsAnswer400Or200 ==
    request.op = "getAvailableSlots" =>
        /\ response.op = "getAvailableSlots"
        /\ (request.barberId = "" \/ request.date = "") =>
            (response.code = 400 /\ ~response.success)
        /\ (request.barberId # "" /\ request.date # "") =>
            (response.code = 200 /\ response.success)

\* a reservation is listed before another
ListedBefore(a, b) ==
    LET day(r) == IF r.appointmentDate = "2025-12-26" THEN 26 ELSE 25
    IN  \/ day(a) > day(b)
        \/ /\ day(a) = day(b)
           /\ MinutesOf(a.appointmentTime) >= MinutesOf(b.appointmentTime)

C14_StoredTimesOnGrid ==
    \A id \in DOMAIN store : Includes(Grid, store[id].appointmentTime)

\* C15: a reservation created without a duration has the duration of its
\* serviceType in the service table; a supplied duration and the supplied
\* price are stored as supplied.
C15_DurationFromServiceTable ==
    (request.op = "create" /\ response.code = 201) =>
        LET row == store[response.data[1].id]
        IN  /\ "duration" \notin DOMAIN request.body =>
                row.duration = ServiceDuration(row.serviceType)
            /\ "duration" \in DOMAIN request.body =>
                row.duration = request.body.duration
            /\ row.price = request.body.price

\* C16: ids are distinct, no step changes the id of a stored reservation or
\* removes it, and Create generates the id: a booking that carries an id
\* field is created like the booking without it, under an id that was not
\* stored.
C16_IdGeneratedDistinctImmutable ==
    [][ /\ \A i \in DOMAIN store :
            /\ i \in DOMAIN store'
            /\ store'[i].id = store[i].id
        /\ \A i, j \in DOMAIN store' :
            i # j => store'[i].id # store'[j].id
        /\ ( /\ request'.op = "create"
             /\ "id" \in DOMAIN request'.body
             /\ Without(request'.body, "id") \in BookingBodies )
           => /\ response'.code = 201
              /\ \E id \in DOMAIN store' \ DOMAIN store :
                    DOMAIN store' = DOMAIN store \cup {id}
      ]_vars

\* C17: a request served while the store fails is answered 500 with success
\* false and changes nothing: a Create stores no reservation and dispatches
\* no confirmation; a Cancel whose status write fails leaves the status as it
\* was and dispatches no cancellation; so do the reads and Update.
C17_StoreFailureAnswers500 ==
    [][ db' = db =>
          LET failed ==
                \/ /\ request'.op = "create"
                   /\ db # "up"
                \/ /\ request'.op \in {"update", "cancel"}
                   /\ \/ db = "down"
                      \/ db = "readOnly" /\ request'.id \in DOMAIN store
                \/ /\ request'.op \in {"getAll", "getById"}
                   /\ db = "down"
                \/ /\ request'.op = "getAvailableSlots"
                   /\ db = "down"
                   /\ request'.barberId # ""
                   /\ request'.date # ""
          IN  failed =>
                /\ response'.op = request'.op
                /\ response'.code = 500
                /\ ~response'.success
                /\ store' = store
                /\ outbox' = <<>>
      ]_vars

\* a Cancel of a pending reservation whose status write failed: answered
\* 500, the reservation still pending, nothing dispatched
C17_Witness ==
    /\ db = "readOnly"
    /\ request.op = "cancel"
    /\ response.op = "cancel"
    /\ response.code = 500
    /\ request.id \in DOMAIN store
    /\ store[request.id].status = "pending"
    /\ outbox = <<>>

\* C18: nothing excludes a Create from a slot: the insert of every Create
\* that was received goes through, whatever the store holds by then and
\* whatever other requests are in flight, and the Create is answered 201
\* when its send settles; two Creates of the same slot that were both
\* received while the slot was free both end stored and pending.
C18_ConcurrentCreatesBothSucceed ==
    [][ \A c \in Clients :
          /\ (inflight[c].pc = "creating" /\ inflight'[c] # inflight[c]) =>
                /\ inflight'[c].pc = "sending"
                /\ \E id \in DOMAIN store' \ DOMAIN store :
                    /\ DOMAIN store' = DOMAIN store \cup {id}
                    /\ store'[id] = inflight'[c].reservation
                    /\ store'[id].status = "pending"
                    /\ store'[id].barberId = inflight[c].request.body.barberId
                    /\ store'[id].appointmentDate =
                         inflight[c].request.body.appointmentDate
                    /\ store'[id].appointmentTime =
                         inflight[c].request.body.appointmentTime
                /\ \A other \in DOMAIN store : store'[other] = store[other]
          /\ ( /\ inflight[c].pc = "sending"
               /\ inflight[c].request.op = "create"
               /\ inflight'[c] # inflight[c] )
             => /\ inflight'[c].pc = "idle"
                /\ response'.op = "create"
                /\ response'.code = 201
                /\ response'.data = <<inflight[c].reservation>>
      ]_vars

\* two Creates in flight, both received while the slot was free, both
\* inserted: two pending reservations in one slot
C18_Witness ==
    \E c1, c2 \in Clients :
        /\ c1 # c2
        /\ inflight[c1].pc = "sending"
        /\ inflight[c2].pc = "sending"
        /\ inflight[c1].request.op = "create"
        /\ inflight[c2].request.op = "create"
        /\ inflight[c1].slotFree
        /\ inflight[c2].slotFree
        /\ inflight[c1].reservation.id # inflight[c2].reservation.id
        /\ SameSlot(store[inflight[c1].reservation.id],
                    store[inflight[c2].reservation.id])
        /\ store[inflight[c1].reservation.id].status = "pending"
        /\ store[inflight[c2].reservation.id].status = "pending"

\* C19: a Create that has stored its reservation and a Cancel that has
\* written the cancelled status eventually answer, whether or not the send
\* of the notification ever settles.
C19_AnswerDoesNotWaitForSend ==
    \A c \in Clients :
        (inflight[c].pc = "sending") ~> (inflight[c].pc = "idle")

\* C20: Cancel of a reservation that is already cancelled answers 200 with
\* it, leaves the whole store as it was and dispatches one cancellation
\* notification to its customer.
C20_RepeatedCancelSendsAgain ==
    [][ ( /\ request'.op = "cancel"
          /\ request'.id \in DOMAIN store
          /\ store[request'.id].status = "cancelled" )
        => /\ response'.op = "cancel"
           /\ response'.code = 200
           /\ response'.data = <<store[request'.id]>>
           /\ store' = store
           /\ Len(outbox') = 1
           /\ outbox'[1].subject = "Reservation Cancelled"
           /\ outbox'[1].recipient = store[request'.id].customerEmail
      ]_vars

\* a Cancel answered 200 for a reservation that a Create had stored as
\* cancelled, its cancellation notification dispatched
C20_Witness ==
    /\ request.op = "cancel"
    /\ response.code = 200
    /\ store[request.id].status = "cancelled"
    /\ Len(outbox) = 1
    /\ outbox[1].subject = "Reservation Cancelled"
    /\ DOMAIN store = {request.id}

\* the messages of the last step that carry a subject
Notified(subject) ==
    {k \in 1..Len(outbox) : outbox[k].subject = subject}

\* C21: a confirmation is sent only for a reservation that is in the store,
\* once for each Create answered 201 and by no other operation; a
\* cancellation is sent only for a reservation whose stored status is
\* cancelled, by a Cancel answered 200; the confirmations sent never exceed
\* the reservations created.
C21_NotificationsFollowStore ==
    /\ [](confirmationsSent <= Cardinality(DOMAIN store))
    /\ [][ /\ \A k \in 1..Len(outbox') :
               /\ outbox'[k].subject = "Reservation Confirmed" =>
                    /\ response'.op = "create"
                    /\ response'.code = 201
                    /\ Len(outbox') = 1
                    /\ response'.data[1].id \in DOMAIN store'
                    /\ store'[response'.data[1].id] = response'.data[1]
                    /\ outbox'[k].recipient = response'.data[1].customerEmail
               /\ outbox'[k].subject = "Reservation Cancelled" =>
                    /\ response'.op = "cancel"
                    /\ response'.code = 200
                    /\ Len(outbox') = 1
                    /\ request'.id \in DOMAIN store'
                    /\ store'[request'.id].status = "cancelled"
                    /\ outbox'[k].recipient = store'[request'.id].customerEmail
           /\ (response'.op = "create" /\ response'.code = 201) =>
               /\ Len(outbox') = 1
               /\ outbox'[1].subject = "Reservation Confirmed"
               /\ confirmationsSent' = confirmationsSent + 1
           /\ ~(response'.op = "create" /\ response'.code = 201) =>
               confirmationsSent' = confirmationsSent
       ]_vars

\* two reservations were created and confirmed, and one of them has just
\* been cancelled and its cancellation sent
C21_Witness ==
    /\ confirmationsSent = 2
    /\ Cardinality(DOMAIN store) = 2
    /\ request.op = "cancel"
    /\ response.code = 200
    /\ Notified("Reservation Cancelled") = {1}
    /\ store[request.id].status = "cancelled"

\* C22: after a successful Cancel that leaves no pending or confirmed
\* reservation on the grid slot of the cancelled one, a GetAvailableSlots of
\* that barber and date that comes next is answered with that slot present,
\* and with every other slot of the grid present exactly when no pending or
\* confirmed reservation holds it.
C22_CancelReleasesSlot ==
    [][ ( /\ request.op = "cancel"
          /\ response.code = 200
          /\ request.id \in DOMAIN store
          /\ Includes(Grid, store[request.id].appointmentTime)
          /\ ~Occupied(store[request.id].barberId,
                       store[request.id].appointmentDate,
                       store[request.id].appointmentTime)
          /\ request'.op = "getAvailableSlots"
          /\ request'.barberId = store[request.id].barberId
          /\ request'.date = store[request.id].appointmentDate )
        => /\ response'.code = 200
           /\ Includes(response'.availableSlots,
                       store[request.id].appointmentTime)
           /\ \A i \in 1..GridSize :
                Includes(response'.availableSlots, Grid[i])
                    <=> ~Occupied(request'.barberId, request'.date, Grid[i])
      ]_vars

====
